---- MODULE Spec2Model ----
(***************************************************************************)
(* ObservableQueryGammPoolShare                                            *)
(* (packages/stores/src/queries/pool-share/index.ts): derivations of an    *)
(* address's pool-share position from the balance, locked-coin,            *)
(* unlocking-coin and pool queries.                                        *)
(*                                                                         *)
(* Strings the code inspects (denominations, pool ids) are sequences of    *)
(* one-character strings, so startsWith, replace and parseInt are computed *)
(* and not assumed.  Dec values are exact rationals <<n, d>> in lowest     *)
(* terms (the arithmetic primitives of @keplr-wallet/unit are outside the  *)
(* repository); trim, shrink and maxDecimals only set display options and  *)
(* leave the value alone, so they do not appear.                           *)
(***************************************************************************)
EXTENDS Integers, Sequences, FiniteSets, TLC

VARIABLES
    balances,        \* queryBalances: address -> list of coins
    lockedCoins,     \* queryLockedCoins: address -> list of coins
    unlockingCoins,  \* queryUnlockingCoins: address -> list of coins
    pools,           \* queryPools: pool id -> pool | Absent
    chain,           \* the chain's lockup state the two lockup queries fetch
    cache,           \* computedFn memo: call key -> value | NoEntry
    ret              \* the last call: [op, args, value], or NoCall

vars == <<balances, lockedCoins, unlockingCoins, pools, chain, cache, ret>>

----------------------------------------------------------------------------
(* Strings                                                                 *)

GammPrefix == <<"g", "a", "m", "m", "/", "p", "o", "o", "l", "/">>
GammDisplayPrefix == <<"G", "A", "M", "M", "/">>
Uosmo == <<"u", "o", "s", "m", "o">>

Digits == <<"0", "1", "2", "3", "4", "5", "6", "7", "8", "9">>
IsDigit(c) == \E i \in 1..Len(Digits) : Digits[i] = c
DigitVal(c) == (CHOOSE i \in 1..Len(Digits) : Digits[i] = c) - 1

\* parseInt yields no negative number here (no sign character is modelled).
NaN == -1

\* String.prototype.startsWith
StartsWith(s, p) == Len(s) >= Len(p) /\ SubSeq(s, 1, Len(p)) = p

\* String.prototype.replace with a string pattern: the first occurrence only.
Replace(s, p, r) ==
    LET hits == {i \in 1..(Len(s) - Len(p) + 1) : SubSeq(s, i, i + Len(p) - 1) = p}
    IN  IF hits = {} THEN s
        ELSE LET i == CHOOSE k \in hits : \A j \in hits : k <= j
             IN  SubSeq(s, 1, i - 1) \o r \o SubSeq(s, i + Len(p), Len(s))

\* parseInt(s): the value of the longest prefix of decimal digits, NaN if none.
RECURSIVE DigitsValue(_, _)
DigitsValue(s, acc) ==
    IF s = <<>> \/ ~IsDigit(Head(s)) THEN acc
    ELSE DigitsValue(Tail(s), acc * 10 + DigitVal(Head(s)))

parseInt(s) == IF s = <<>> \/ ~IsDigit(Head(s)) THEN NaN ELSE DigitsValue(s, 0)

\* a >= b on JS numbers: false when either side is NaN.
NumGe(a, b) == a # NaN /\ b # NaN /\ a >= b

\* [...new Set(result)]: first occurrences, in insertion order.
RECURSIVE Dedupe(_)
Dedupe(s) ==
    IF s = <<>> THEN <<>>
    ELSE LET init == Dedupe(SubSeq(s, 1, Len(s) - 1))
             last == s[Len(s)]
         IN  IF \E i \in 1..Len(init) : init[i] = last THEN init
             ELSE Append(init, last)

\* Faulty variant: the default sort order, which compares the strings.
RECURSIVE StringLess(_, _)
StringLess(s, t) ==
    IF t = <<>> THEN FALSE
    ELSE IF s = <<>> THEN TRUE
    ELSE IF Head(s) # Head(t) THEN DigitVal(Head(s)) < DigitVal(Head(t))
    ELSE StringLess(Tail(s), Tail(t))

PoolIdCompare_Lexicographic(e1, e2) == IF StringLess(e1, e2) THEN -1 ELSE 1

\* The comparator handed to sort.
PoolIdCompare(e1, e2) == IF NumGe(parseInt(e1), parseInt(e2)) THEN 1 ELSE -1

\* Array.prototype.sort with PoolIdCompare, as an insertion sort: each element
\* moves left past the elements that compare greater than it.
RECURSIVE InsertSorted(_, _)
InsertSorted(sorted, e) ==
    IF sorted = <<>> THEN <<e>>
    ELSE IF PoolIdCompare(sorted[Len(sorted)], e) > 0
         THEN Append(InsertSorted(SubSeq(sorted, 1, Len(sorted) - 1), e),
                     sorted[Len(sorted)])
         ELSE Append(sorted, e)

RECURSIVE Sort(_)
Sort(s) ==
    IF s = <<>> THEN <<>>
    ELSE InsertSorted(Sort(SubSeq(s, 1, Len(s) - 1)), s[Len(s)])

----------------------------------------------------------------------------
(* Dec: exact rationals <<n, d>>, d > 0, in lowest terms                   *)

RECURSIVE GCD(_, _)
GCD(a, b) == IF b = 0 THEN a ELSE GCD(b, a % b)

Abs(n) == IF n < 0 THEN -n ELSE n

Norm(n, d) ==
    LET g == GCD(Abs(n), Abs(d))
        s == IF d < 0 THEN -1 ELSE 1
    IN  <<(s * n) \div g, (s * d) \div g>>

Dec(n) == <<n, 1>>
DecIsZero(x) == x[1] = 0
DecAdd(x, y) == Norm(x[1] * y[2] + y[1] * x[2], x[2] * y[2])
DecMul(x, y) == Norm(x[1] * y[1], x[2] * y[2])
\* Callers guard the divisor; totalWeight of a pool is positive.
DecQuo(x, y) == Norm(x[1] * y[2], x[2] * y[1])
DecLe(x, y) == x[1] * y[2] <= y[1] * x[2]

RECURSIVE TenExponentN(_)
TenExponentN(n) == IF n = 0 THEN 1 ELSE 10 * TenExponentN(n - 1)

\* IntPretty.moveDecimalPointLeft(delta): the value divided by 10^delta.
DecMoveDecimalPointLeft(x, delta) == DecQuo(x, Dec(TenExponentN(delta)))

----------------------------------------------------------------------------
(* Value objects of @keplr-wallet/unit, by the value and flags they carry  *)

CoinPretty(currency, dec) == [currency |-> currency, dec |-> dec]
RatePretty(dec) == [ready |-> TRUE, dec |-> dec]
PricePretty(fiatCurrency, dec) ==
    [fiatCurrency |-> fiatCurrency, ready |-> TRUE, dec |-> dec]
\* .ready(false)
NotReady(pretty) == [pretty EXCEPT !.ready = FALSE]
\* CoinPretty.add: a coin of another denomination is not added.
CoinAdd(a, b) ==
    IF a.currency.coinMinimalDenom # b.currency.coinMinimalDenom THEN a
    ELSE CoinPretty(a.currency, DecAdd(a.dec, b.dec))

Absent == [absent |-> TRUE]
NotFound == [notFound |-> TRUE]

\* Array.prototype.find on coin.currency.coinMinimalDenom === denom
FindCoin(coins, denom) ==
    LET hits == {i \in 1..Len(coins) : coins[i].currency.coinMinimalDenom = denom}
    IN  IF hits = {} THEN NotFound
        ELSE coins[CHOOSE k \in hits : \A j \in hits : k <= j]

----------------------------------------------------------------------------
(* computedFn (mobx-utils): a call made inside a reactive context is       *)
(* served from the entry kept for its argument tuple; any other call runs  *)
(* the function.  memo is the set of entries, a function from call keys    *)
(* <<operation, arguments>> to values.                                     *)

EmptyMemo == [k \in {} |-> Absent]

computedFn(memo, key, computed) ==
    IF key \in DOMAIN memo THEN memo[key] ELSE computed

----------------------------------------------------------------------------
(* ObservableQueryGammPoolShare.  Every operation takes the memo its       *)
(* nested calls are served from; with EmptyMemo it is the plain function.  *)

StaticGetShareCurrency(poolId) ==
    [coinDenom |-> GammDisplayPrefix \o poolId,
     coinMinimalDenom |-> GammPrefix \o poolId,
     coinDecimals |-> 18]

getShareCurrency(memo, poolId) ==
    computedFn(memo, <<"getShareCurrency", <<poolId>>>>,
               StaticGetShareCurrency(poolId))

\* queryBalances.getQueryBech32Address(a).positiveBalances
positiveBalances(bech32Address) ==
    SelectSeq(balances[bech32Address], LAMBDA bal : bal.dec[1] > 0)

\* queryBalances.getQueryBech32Address(a).getBalanceFromCurrency(currency)
getBalanceFromCurrency(bech32Address, currency) ==
    LET bal == FindCoin(balances[bech32Address], currency.coinMinimalDenom)
    IN  IF bal # NotFound THEN bal ELSE CoinPretty(currency, Dec(0))

RECURSIVE OwnPoolsScan(_)
OwnPoolsScan(coins) ==
    IF coins = <<>> THEN <<>>
    ELSE LET rest == OwnPoolsScan(SubSeq(coins, 1, Len(coins) - 1))
             bal == coins[Len(coins)]
         IN  IF StartsWith(bal.currency.coinMinimalDenom, GammPrefix)
             THEN Append(rest, Replace(bal.currency.coinMinimalDenom, GammPrefix, <<>>))
             ELSE rest

\* Faulty variant: every balance is scanned, not only the positive ones.
getOwnPoolsFn_AllBalances(bech32Address) ==
    LET locked == lockedCoins[bech32Address]
        result == OwnPoolsScan(balances[bech32Address] \o locked)
    IN  Sort(Dedupe(result))

getOwnPoolsFn(bech32Address) ==
    LET locked == lockedCoins[bech32Address]
        result == OwnPoolsScan(positiveBalances(bech32Address) \o locked)
    IN  Sort(Dedupe(result))

getOwnPools(memo, bech32Address) ==
    computedFn(memo, <<"getOwnPools", <<bech32Address>>>>,
               getOwnPoolsFn(bech32Address))

\* Faulty variant: the locked coin is looked up by the display denomination.
getLockedGammShareFn_ByCoinDenom(memo, bech32Address, poolId) ==
    LET currency == getShareCurrency(memo, poolId)
        locked == FindCoin(lockedCoins[bech32Address], currency.coinDenom)
    IN  IF locked # NotFound THEN locked ELSE CoinPretty(currency, Dec(0))

getLockedGammShareFn(memo, bech32Address, poolId) ==
    LET currency == getShareCurrency(memo, poolId)
        locked == FindCoin(lockedCoins[bech32Address], currency.coinMinimalDenom)
    IN  IF locked # NotFound THEN locked ELSE CoinPretty(currency, Dec(0))

getLockedGammShare(memo, bech32Address, poolId) ==
    computedFn(memo, <<"getLockedGammShare", <<bech32Address, poolId>>>>,
               getLockedGammShareFn(memo, bech32Address, poolId))

\* Faulty variant: the result for an absent pool is not marked not-ready.
getLockedGammShareRatioFn_AbsentReady(memo, bech32Address, poolId) ==
    LET pool == pools[poolId]
    IN  IF pool = Absent THEN RatePretty(Dec(0))
        ELSE IF DecIsZero(pool.totalShare) THEN RatePretty(Dec(0))
        ELSE LET share == getLockedGammShare(memo, bech32Address, poolId)
             IN  RatePretty(DecMoveDecimalPointLeft(DecQuo(share.dec, pool.totalShare), 2))

getLockedGammShareRatioFn(memo, bech32Address, poolId) ==
    LET pool == pools[poolId]
    IN  IF pool = Absent THEN NotReady(RatePretty(Dec(0)))
        ELSE IF DecIsZero(pool.totalShare) THEN RatePretty(Dec(0))
        ELSE LET share == getLockedGammShare(memo, bech32Address, poolId)
             IN  RatePretty(DecMoveDecimalPointLeft(DecQuo(share.dec, pool.totalShare), 2))

getLockedGammShareRatio(memo, bech32Address, poolId) ==
    computedFn(memo, <<"getLockedGammShareRatio", <<bech32Address, poolId>>>>,
               getLockedGammShareRatioFn(memo, bech32Address, poolId))

\* Faulty variant: the share ratio is moved two decimal places, as in
\* getLockedGammShareRatio.
getLockedGammShareValueFn_Shifted(memo, bech32Address, poolId, poolLiqudity, fiatCurrency) ==
    LET pool == pools[poolId]
    IN  IF pool = Absent THEN NotReady(PricePretty(fiatCurrency, Dec(0)))
        ELSE IF DecIsZero(pool.totalShare) THEN PricePretty(fiatCurrency, Dec(0))
        ELSE LET share == getLockedGammShare(memo, bech32Address, poolId)
             IN  [poolLiqudity EXCEPT
                    !.dec = DecMul(poolLiqudity.dec,
                                   DecMoveDecimalPointLeft(
                                       DecQuo(share.dec, pool.totalShare), 2))]

getLockedGammShareValueFn(memo, bech32Address, poolId, poolLiqudity, fiatCurrency) ==
    LET pool == pools[poolId]
    IN  IF pool = Absent THEN NotReady(PricePretty(fiatCurrency, Dec(0)))
        ELSE IF DecIsZero(pool.totalShare) THEN PricePretty(fiatCurrency, Dec(0))
        ELSE LET share == getLockedGammShare(memo, bech32Address, poolId)
             IN  [poolLiqudity EXCEPT
                    !.dec = DecMul(poolLiqudity.dec, DecQuo(share.dec, pool.totalShare))]

getLockedGammShareValue(memo, bech32Address, poolId, poolLiqudity, fiatCurrency) ==
    computedFn(memo,
               <<"getLockedGammShareValue",
                 <<bech32Address, poolId, poolLiqudity, fiatCurrency>>>>,
               getLockedGammShareValueFn(memo, bech32Address, poolId,
                                         poolLiqudity, fiatCurrency))

getUnlockingGammShareFn(memo, bech32Address, poolId) ==
    LET currency == getShareCurrency(memo, poolId)
        locked == FindCoin(unlockingCoins[bech32Address], currency.coinMinimalDenom)
    IN  IF locked # NotFound THEN locked ELSE CoinPretty(currency, Dec(0))

getUnlockingGammShare(memo, bech32Address, poolId) ==
    computedFn(memo, <<"getUnlockingGammShare", <<bech32Address, poolId>>>>,
               getUnlockingGammShareFn(memo, bech32Address, poolId))

getAvailableGammShareFn(memo, bech32Address, poolId) ==
    getBalanceFromCurrency(bech32Address, getShareCurrency(memo, poolId))

getAvailableGammShare(memo, bech32Address, poolId) ==
    computedFn(memo, <<"getAvailableGammShare", <<bech32Address, poolId>>>>,
               getAvailableGammShareFn(memo, bech32Address, poolId))

getAvailableGammShareRatioFn(memo, bech32Address, poolId) ==
    LET pool == pools[poolId]
    IN  IF pool = Absent THEN NotReady(RatePretty(Dec(0)))
        ELSE IF DecIsZero(pool.totalShare) THEN RatePretty(Dec(0))
        ELSE RatePretty(DecQuo(getAvailableGammShare(memo, bech32Address, poolId).dec,
                               pool.totalShare))

getAvailableGammShareRatio(memo, bech32Address, poolId) ==
    computedFn(memo, <<"getAvailableGammShareRatio", <<bech32Address, poolId>>>>,
               getAvailableGammShareRatioFn(memo, bech32Address, poolId))

\* Faulty variant: the unlocking coins are added on top of the locked coins.
getAllGammShareFn_AddsUnlocking(memo, bech32Address, poolId) ==
    LET available == getAvailableGammShare(memo, bech32Address, poolId)
        locked == getLockedGammShare(memo, bech32Address, poolId)
        unlocking == getUnlockingGammShare(memo, bech32Address, poolId)
    IN  CoinAdd(CoinAdd(available, locked), unlocking)

getAllGammShareFn(memo, bech32Address, poolId) ==
    LET available == getAvailableGammShare(memo, bech32Address, poolId)
        locked == getLockedGammShare(memo, bech32Address, poolId)
    IN  CoinAdd(available, locked)

getAllGammShare(memo, bech32Address, poolId) ==
    computedFn(memo, <<"getAllGammShare", <<bech32Address, poolId>>>>,
               getAllGammShareFn(memo, bech32Address, poolId))

\* Faulty variant: a pool without shares is reported like an absent pool.
getAllGammShareRatioFn_ZeroNotReady(memo, bech32Address, poolId) ==
    LET pool == pools[poolId]
    IN  IF pool = Absent \/ DecIsZero(pool.totalShare)
        THEN NotReady(RatePretty(Dec(0)))
        ELSE RatePretty(DecQuo(getAllGammShare(memo, bech32Address, poolId).dec,
                               pool.totalShare))

getAllGammShareRatioFn(memo, bech32Address, poolId) ==
    LET pool == pools[poolId]
    IN  IF pool = Absent THEN NotReady(RatePretty(Dec(0)))
        ELSE LET share == getAllGammShare(memo, bech32Address, poolId)
                 totalShare == pool.totalShare
             IN  IF DecIsZero(totalShare) THEN RatePretty(totalShare)
                 ELSE RatePretty(DecQuo(share.dec, totalShare))

getAllGammShareRatio(memo, bech32Address, poolId) ==
    computedFn(memo, <<"getAllGammShareRatio", <<bech32Address, poolId>>>>,
               getAllGammShareRatioFn(memo, bech32Address, poolId))

getShareAssetsFn(memo, bech32Address, poolId) ==
    LET shareRatio == getAllGammShareRatio(memo, bech32Address, poolId)
        pool == pools[poolId]
    IN  IF pool = Absent \/ ~shareRatio.ready THEN <<>>
        ELSE [i \in 1..Len(pool.poolAssets) |->
                LET asset == pool.poolAssets[i]
                IN  [ratio |-> RatePretty(DecQuo(asset.weight, pool.totalWeight)),
                     asset |-> CoinPretty(asset.amount.currency,
                                  DecMul(asset.amount.dec,
                                         DecMoveDecimalPointLeft(shareRatio.dec, 2)))]]

getShareAssets(memo, bech32Address, poolId) ==
    computedFn(memo, <<"getShareAssets", <<bech32Address, poolId>>>>,
               getShareAssetsFn(memo, bech32Address, poolId))

----------------------------------------------------------------------------
(* What each operation reads and calls while it runs                       *)

PoolUsable(poolId) == pools[poolId] # Absent /\ ~DecIsZero(pools[poolId].totalShare)

\* The memoized operations a call of key runs directly.
Callees(key) ==
    LET op == key[1]
        args == key[2]
    IN  CASE op \in {"getLockedGammShare", "getUnlockingGammShare",
                     "getAvailableGammShare"} ->
                {<<"getShareCurrency", <<args[2]>>>>}
          [] op \in {"getLockedGammShareRatio", "getLockedGammShareValue"} ->
                IF PoolUsable(args[2])
                THEN {<<"getLockedGammShare", <<args[1], args[2]>>>>} ELSE {}
          [] op = "getAvailableGammShareRatio" ->
                IF PoolUsable(args[2])
                THEN {<<"getAvailableGammShare", <<args[1], args[2]>>>>} ELSE {}
          [] op = "getAllGammShare" ->
                {<<"getAvailableGammShare", args>>, <<"getLockedGammShare", args>>}
          [] op = "getAllGammShareRatio" ->
                IF pools[args[2]] # Absent THEN {<<"getAllGammShare", args>>} ELSE {}
          [] op = "getShareAssets" -> {<<"getAllGammShareRatio", args>>}
          [] OTHER -> {}

\* Faulty variant: the read of the locked coins is not tracked.
Reads_LockedCoinsUntracked(key) ==
    LET op == key[1]
    IN  CASE op = "getOwnPools" -> {"queryBalances"}
          [] op = "getUnlockingGammShare" -> {"queryUnlockingCoins"}
          [] op = "getAvailableGammShare" -> {"queryBalances"}
          [] op \in {"getLockedGammShareRatio", "getLockedGammShareValue",
                     "getAvailableGammShareRatio", "getAllGammShareRatio",
                     "getShareAssets"} -> {"queryPools"}
          [] OTHER -> {}

\* The queries a call of key reads directly.
Reads(key) ==
    LET op == key[1]
    IN  CASE op = "getOwnPools" -> {"queryBalances", "queryLockedCoins"}
          [] op = "getLockedGammShare" -> {"queryLockedCoins"}
          [] op = "getUnlockingGammShare" -> {"queryUnlockingCoins"}
          [] op = "getAvailableGammShare" -> {"queryBalances"}
          [] op \in {"getLockedGammShareRatio", "getLockedGammShareValue",
                     "getAvailableGammShareRatio", "getAllGammShareRatio",
                     "getShareAssets"} -> {"queryPools"}
          [] OTHER -> {}

\* The call graph is four calls deep (getShareAssets -> getAllGammShareRatio ->
\* getAllGammShare -> getLockedGammShare -> getShareCurrency).
Below(keys) == keys \cup UNION {Callees(k) : k \in keys}
CallClosure(key) == Below(Below(Below(Below({key}))))

\* Every query the computation of key depends on, through the calls it makes.
Dependencies(key) == UNION {Reads(k) : k \in CallClosure(key)}

\* Run one operation by name.
Apply(memo, key) ==
    LET op == key[1]
        args == key[2]
    IN  CASE op = "getOwnPools" -> getOwnPools(memo, args[1])
          [] op = "getShareCurrency" -> getShareCurrency(memo, args[1])
          [] op = "getLockedGammShare" -> getLockedGammShare(memo, args[1], args[2])
          [] op = "getLockedGammShareRatio" ->
                getLockedGammShareRatio(memo, args[1], args[2])
          [] op = "getLockedGammShareValue" ->
                getLockedGammShareValue(memo, args[1], args[2], args[3], args[4])
          [] op = "getUnlockingGammShare" ->
                getUnlockingGammShare(memo, args[1], args[2])
          [] op = "getAvailableGammShare" ->
                getAvailableGammShare(memo, args[1], args[2])
          [] op = "getAvailableGammShareRatio" ->
                getAvailableGammShareRatio(memo, args[1], args[2])
          [] op = "getAllGammShare" -> getAllGammShare(memo, args[1], args[2])
          [] op = "getAllGammShareRatio" ->
                getAllGammShareRatio(memo, args[1], args[2])
          [] op = "getShareAssets" -> getShareAssets(memo, args[1], args[2])

\* A call in a reactive context keeps an entry for itself and for the
\* memoized calls it made.
Store(memo, key) ==
    [k \in DOMAIN memo \cup CallClosure(key) |-> Apply(memo, k)]

\* mobx drops the entries that depend on an observable that changed.
Invalidate(memo, query) ==
    [k \in {x \in DOMAIN memo : query \notin Dependencies(x)} |-> memo[k]]

----------------------------------------------------------------------------
(* Bounds and the values the queries are refreshed with                    *)

MaxCoins == 2

Addresses == {"osmo1a"}

Id1 == <<"1">>
Id2 == <<"2">>
Id3 == <<"3">>
Id10 == <<"1", "0">>
PoolIds == {Id2, Id10}

Uion == <<"u", "i", "o", "n">>

Coin(denom, n) == CoinPretty([coinMinimalDenom |-> denom], Dec(n))
ShareCoin(poolId, n) == Coin(GammPrefix \o poolId, n)

HasDenom(list, denom) ==
    \E i \in 1..Len(list) : list[i].currency.coinMinimalDenom = denom

\* The lists of at most n of the coins, one coin per denomination, in any order.
RECURSIVE ListsOfLen(_, _)
ListsOfLen(coins, n) ==
    IF n = 0 THEN {<<>>}
    ELSE UNION {{Append(l, c) :
                    c \in {x \in coins : ~HasDenom(l, x.currency.coinMinimalDenom)}} :
                l \in ListsOfLen(coins, n - 1)}

Lists(coins, n) == UNION {ListsOfLen(coins, k) : k \in 0..n}

\* Pool with two assets of weights 1 and 3.
PoolWith(totalShare) ==
    [totalShare |-> Dec(totalShare),
     poolAssets |-> <<[weight |-> Dec(1), amount |-> Coin(Uosmo, 1000)],
                      [weight |-> Dec(3), amount |-> Coin(Uion, 500)]>>,
     totalWeight |-> Dec(4)]

PoolChoices == {Absent, PoolWith(0), PoolWith(100)}

Usd == [currency |-> "usd"]
PoolLiquidities == {PricePretty(Usd, Dec(200))}

ShareBalanceCoins == {ShareCoin(Id2, 30), ShareCoin(Id10, 30), Coin(Uosmo, 7)}
ShareLockedCoins == {ShareCoin(Id2, 50), ShareCoin(Id10, 50)}
ShareUnlockingCoins == {ShareCoin(Id2, 20), ShareCoin(Id10, 20)}

OwnBalanceCoins ==
    {ShareCoin(Id2, 1), ShareCoin(Id10, 1), ShareCoin(Id1, 0), Coin(Uosmo, 1)}
OwnLockedCoins == {ShareCoin(Id1, 1), ShareCoin(Id2, 1), Coin(Uion, 1)}
OwnUnlockingCoins == {ShareCoin(Id3, 1)}

MemoBalanceCoins == {ShareCoin(Id2, 30)}
MemoLockedCoins == {ShareCoin(Id2, 50)}
MemoUnlockingCoins == {ShareCoin(Id2, 20)}

\* On the chain the unlocking coins are among the locked coins.
LockupConsistent(locked, unlocking) ==
    \A i \in 1..Len(unlocking) :
        LET l == FindCoin(locked, unlocking[i].currency.coinMinimalDenom)
        IN  l # NotFound /\ DecLe(unlocking[i].dec, l.dec)

----------------------------------------------------------------------------
(* State machine                                                           *)

NoCall == [op |-> "none"]

Init ==
    /\ balances = [a \in Addresses |-> <<>>]
    /\ lockedCoins = [a \in Addresses |-> <<>>]
    /\ unlockingCoins = [a \in Addresses |-> <<>>]
    /\ pools = [p \in PoolIds |-> Absent]
    /\ chain = [lockedCoins |-> [a \in Addresses |-> <<>>],
                unlockingCoins |-> [a \in Addresses |-> <<>>]]
    /\ cache = EmptyMemo
    /\ ret = NoCall

\* The balance query of an address is refreshed with a new response.
RefreshBalances(a, v) ==
    /\ balances' = [balances EXCEPT ![a] = v]
    /\ cache' = Invalidate(cache, "queryBalances")
    /\ ret' = NoCall
    /\ UNCHANGED <<lockedCoins, unlockingCoins, pools, chain>>

RefreshLockedCoins(a, v) ==
    /\ lockedCoins' = [lockedCoins EXCEPT ![a] = v]
    /\ cache' = Invalidate(cache, "queryLockedCoins")
    /\ ret' = NoCall
    /\ UNCHANGED <<balances, unlockingCoins, pools, chain>>

RefreshUnlockingCoins(a, v) ==
    /\ unlockingCoins' = [unlockingCoins EXCEPT ![a] = v]
    /\ cache' = Invalidate(cache, "queryUnlockingCoins")
    /\ ret' = NoCall
    /\ UNCHANGED <<balances, lockedCoins, pools, chain>>

RefreshPools(p, v) ==
    /\ pools' = [pools EXCEPT ![p] = v]
    /\ cache' = Invalidate(cache, "queryPools")
    /\ ret' = NoCall
    /\ UNCHANGED <<balances, lockedCoins, unlockingCoins, chain>>

\* The lockup state of an address changes on the chain; no query has
\* fetched it yet.
ChainStep(a, locked, unlocking) ==
    /\ LockupConsistent(locked, unlocking)
    /\ chain' = [lockedCoins |-> [chain.lockedCoins EXCEPT ![a] = locked],
                 unlockingCoins |-> [chain.unlockingCoins EXCEPT ![a] = unlocking]]
    /\ UNCHANGED <<balances, lockedCoins, unlockingCoins, pools, cache, ret>>

\* A call of a memoized operation; observed: made inside a reactive context.
Call(key, observed) ==
    /\ ret' = [op |-> key[1], args |-> key[2], value |-> Apply(cache, key)]
    /\ cache' = IF observed THEN Store(cache, key) ELSE cache
    /\ UNCHANGED <<balances, lockedCoins, unlockingCoins, pools, chain>>

CallGetOwnPools(a, observed) == Call(<<"getOwnPools", <<a>>>>, observed)
CallGetShareCurrency(p, observed) == Call(<<"getShareCurrency", <<p>>>>, observed)
CallGetLockedGammShare(a, p, observed) ==
    Call(<<"getLockedGammShare", <<a, p>>>>, observed)
CallGetLockedGammShareRatio(a, p, observed) ==
    Call(<<"getLockedGammShareRatio", <<a, p>>>>, observed)
CallGetLockedGammShareValue(a, p, liq, fiat, observed) ==
    Call(<<"getLockedGammShareValue", <<a, p, liq, fiat>>>>, observed)
CallGetUnlockingGammShare(a, p, observed) ==
    Call(<<"getUnlockingGammShare", <<a, p>>>>, observed)
CallGetAvailableGammShare(a, p, observed) ==
    Call(<<"getAvailableGammShare", <<a, p>>>>, observed)
CallGetAvailableGammShareRatio(a, p, observed) ==
    Call(<<"getAvailableGammShareRatio", <<a, p>>>>, observed)
CallGetAllGammShare(a, p, observed) ==
    Call(<<"getAllGammShare", <<a, p>>>>, observed)
CallGetAllGammShareRatio(a, p, observed) ==
    Call(<<"getAllGammShareRatio", <<a, p>>>>, observed)
CallGetShareAssets(a, p, observed) ==
    Call(<<"getShareAssets", <<a, p>>>>, observed)

\* An entry nothing observes any more is dropped; an entry stays while an
\* entry that called it is kept.
Unobserve(key) ==
    /\ key \in DOMAIN cache
    /\ \A k \in DOMAIN cache : k = key \/ key \notin Callees(k)
    /\ cache' = [k \in DOMAIN cache \ {key} |-> cache[k]]
    /\ UNCHANGED <<balances, lockedCoins, unlockingCoins, pools, chain, ret>>

\* The share derivations of one address over refreshed queries.
Next ==
    \E a \in Addresses, p \in PoolIds :
        \/ \E v \in Lists(ShareBalanceCoins, MaxCoins) : RefreshBalances(a, v)
        \/ \E v \in Lists(ShareLockedCoins, MaxCoins) : RefreshLockedCoins(a, v)
        \/ \E v \in Lists(ShareUnlockingCoins, MaxCoins) : RefreshUnlockingCoins(a, v)
        \/ \E v \in PoolChoices : RefreshPools(p, v)
        \/ CallGetShareCurrency(p, FALSE)
        \/ CallGetLockedGammShare(a, p, FALSE)
        \/ CallGetLockedGammShareRatio(a, p, FALSE)
        \/ \E liq \in PoolLiquidities : CallGetLockedGammShareValue(a, p, liq, Usd, FALSE)
        \/ CallGetUnlockingGammShare(a, p, FALSE)
        \/ CallGetAvailableGammShare(a, p, FALSE)
        \/ CallGetAvailableGammShareRatio(a, p, FALSE)
        \/ CallGetAllGammShare(a, p, FALSE)
        \/ CallGetAllGammShareRatio(a, p, FALSE)
        \/ CallGetShareAssets(a, p, FALSE)

Spec == Init /\ [][Next]_vars

\* getOwnPools over every response of the balance and lockup queries.
NextOwn ==
    \E a \in Addresses :
        \/ \E v \in Lists(OwnBalanceCoins, MaxCoins) : RefreshBalances(a, v)
        \/ \E v \in Lists(OwnLockedCoins, MaxCoins) : RefreshLockedCoins(a, v)
        \/ \E v \in Lists(OwnUnlockingCoins, MaxCoins) : RefreshUnlockingCoins(a, v)
        \/ CallGetOwnPools(a, FALSE)

SpecOwn == Init /\ [][NextOwn]_vars

\* The two lockup queries fetch the chain's lockup state, each on its own.
NextLockup ==
    \E a \in Addresses, p \in PoolIds :
        \/ \E l \in Lists(ShareLockedCoins, MaxCoins),
              u \in Lists(ShareUnlockingCoins, MaxCoins) : ChainStep(a, l, u)
        \/ RefreshLockedCoins(a, chain.lockedCoins[a])
        \/ RefreshUnlockingCoins(a, chain.unlockingCoins[a])
        \/ CallGetLockedGammShare(a, p, FALSE)
        \/ CallGetUnlockingGammShare(a, p, FALSE)

SpecLockup == Init /\ [][NextLockup]_vars

\* Calls inside and outside reactive contexts, interleaved with refreshes.
MemoKeys ==
    {<<"getOwnPools", <<a>>>> : a \in Addresses} \cup
    {<<"getShareCurrency", <<Id2>>>>} \cup
    {<<op, <<a, Id2>>>> :
        op \in {"getLockedGammShare", "getLockedGammShareRatio",
                "getUnlockingGammShare", "getAvailableGammShare",
                "getAvailableGammShareRatio", "getAllGammShare",
                "getAllGammShareRatio", "getShareAssets"},
        a \in Addresses} \cup
    {<<"getLockedGammShareValue", <<a, Id2, liq, Usd>>>> :
        a \in Addresses, liq \in PoolLiquidities}

NextMemo ==
    \E a \in Addresses :
        \/ \E v \in Lists(MemoBalanceCoins, MaxCoins) : RefreshBalances(a, v)
        \/ \E v \in Lists(MemoLockedCoins, MaxCoins) : RefreshLockedCoins(a, v)
        \/ \E v \in Lists(MemoUnlockingCoins, MaxCoins) : RefreshUnlockingCoins(a, v)
        \/ \E v \in PoolChoices : RefreshPools(Id2, v)
        \/ \E key \in MemoKeys, observed \in BOOLEAN : Call(key, observed)
        \/ \E key \in MemoKeys : Unobserve(key)

SpecMemo == Init /\ [][NextMemo]_vars

----------------------------------------------------------------------------
(* Claims                                                                  *)

Range(seq) == {seq[i] : i \in 1..Len(seq)}
IsCall(op) == ret # NoCall /\ ret.op = op

\* C1: for every address and pool id, on every snapshot of the balance and
\* locked-coin queries, getAllGammShare is getAvailableGammShare plus
\* getLockedGammShare; the unlocking amount is not part of the sum.
C1_TotalIsAvailablePlusLocked ==
    \A a \in Addresses, p \in PoolIds :
        /\ getAllGammShare(cache, a, p).currency.coinMinimalDenom = GammPrefix \o p
        /\ getAllGammShare(cache, a, p).dec =
              DecAdd(getAvailableGammShare(cache, a, p).dec,
                     getLockedGammShare(cache, a, p).dec)

C1_Witness ==
    /\ IsCall("getAllGammShare")
    /\ ret.value.dec = Dec(80)
    /\ getUnlockingGammShare(cache, ret.args[1], ret.args[2]).dec = Dec(20)

BothLockupQueriesCurrent ==
    /\ lockedCoins = chain.lockedCoins
    /\ unlockingCoins = chain.unlockingCoins

C3_AbsentPoolNotReady ==
    \A a \in Addresses, p \in PoolIds, liq \in PoolLiquidities :
        pools[p] = Absent =>
            /\ ~getLockedGammShareRatio(cache, a, p).ready
            /\ ~getAvailableGammShareRatio(cache, a, p).ready
            /\ ~getAllGammShareRatio(cache, a, p).ready
            /\ ~getLockedGammShareValue(cache, a, p, liq, Usd).ready
            /\ getLockedGammShareRatio(cache, a, p) # RatePretty(Dec(0))
            /\ getAvailableGammShareRatio(cache, a, p) # RatePretty(Dec(0))
            /\ getAllGammShareRatio(cache, a, p) # RatePretty(Dec(0))
            /\ getLockedGammShareValue(cache, a, p, liq, Usd) # PricePretty(Usd, Dec(0))
            /\ getShareAssets(cache, a, p) = <<>>

C3_Witness ==
    /\ IsCall("getShareAssets")
    /\ pools[ret.args[2]] = Absent
    /\ ret.value = <<>>
    /\ getAllGammShare(cache, ret.args[1], ret.args[2]).dec = Dec(80)

\* C4: when the pool is known and its totalShare is zero, the locked, the
\* available and the total ratio are each a ready ratio of value zero, for
\* every amount the address holds.
C4_ZeroTotalShareReadyZero ==
    \A a \in Addresses, p \in PoolIds :
        (pools[p] # Absent /\ DecIsZero(pools[p].totalShare)) =>
            /\ getLockedGammShareRatio(cache, a, p) = RatePretty(Dec(0))
            /\ getAvailableGammShareRatio(cache, a, p) = RatePretty(Dec(0))
            /\ getAllGammShareRatio(cache, a, p) = RatePretty(Dec(0))

C4_Witness ==
    /\ IsCall("getAllGammShareRatio")
    /\ pools[ret.args[2]] = PoolWith(0)
    /\ ret.value = RatePretty(Dec(0))
    /\ getAllGammShare(cache, ret.args[1], ret.args[2]).dec = Dec(80)

\* C5: getOwnPools lists no identifier twice and in ascending order of the
\* identifiers' numeric values.
C5_OwnPoolsDistinctAndNumericallySorted ==
    \A a \in Addresses :
        LET r == getOwnPools(cache, a)
        IN  \A i, j \in 1..Len(r) :
                i < j => r[i] # r[j] /\ DigitsValue(r[i], 0) < DigitsValue(r[j], 0)

\* Balances hold pools 2 and 10, the locked coins pool 1: the result is
\* 1, 2, 10.
C5_Witness ==
    /\ IsCall("getOwnPools")
    /\ balances[ret.args[1]] = <<ShareCoin(Id2, 1), ShareCoin(Id10, 1)>>
    /\ lockedCoins[ret.args[1]] = <<ShareCoin(Id1, 1)>>
    /\ ret.value = <<Id1, Id2, Id10>>

OwnsShareOf(a, id) ==
    \/ \E i \in 1..Len(balances[a]) :
          /\ balances[a][i].currency.coinMinimalDenom = GammPrefix \o id
          /\ balances[a][i].dec[1] > 0
    \/ \E i \in 1..Len(lockedCoins[a]) :
          lockedCoins[a][i].currency.coinMinimalDenom = GammPrefix \o id

\* C6: a pool id is in getOwnPools(address) exactly when the address has a
\* positive balance or a locked coin of denomination gamm/pool/<id>; other
\* currencies, zero balances and unlocking coins add nothing.
C6_OwnPoolsExactlyTheHeldPools ==
    \A a \in Addresses :
        \A id \in Range(getOwnPools(cache, a)) \cup {Id1, Id2, Id3, Id10} :
            id \in Range(getOwnPools(cache, a)) <=> OwnsShareOf(a, id)

C6_Witness ==
    /\ IsCall("getOwnPools")
    /\ ret.value = <<>>
    /\ balances[ret.args[1]] = <<ShareCoin(Id1, 0), Coin(Uosmo, 1)>>
    /\ lockedCoins[ret.args[1]] = <<Coin(Uion, 1)>>
    /\ unlockingCoins[ret.args[1]] = <<ShareCoin(Id3, 1)>>

RatioOps ==
    {"getLockedGammShareRatio", "getAvailableGammShareRatio", "getAllGammShareRatio"}

ShareOf(op, a, p) ==
    CASE op = "getLockedGammShareRatio" -> getLockedGammShare(cache, a, p)
      [] op = "getAvailableGammShareRatio" -> getAvailableGammShare(cache, a, p)
      [] op = "getAllGammShareRatio" -> getAllGammShare(cache, a, p)

\* C7: for a known pool with nonzero totalShare, a call of the locked, the
\* available or the total ratio returns its share amount divided by
\* totalShare, and the locked and the available ratio add up to the total
\* ratio.
C7_RatiosOnOneScale ==
    (ret # NoCall /\ ret.op \in RatioOps /\ PoolUsable(ret.args[2])) =>
        LET a == ret.args[1]
            p == ret.args[2]
        IN  /\ ret.value =
                  RatePretty(DecQuo(ShareOf(ret.op, a, p).dec, pools[p].totalShare))
            /\ DecAdd(getLockedGammShareRatio(cache, a, p).dec,
                      getAvailableGammShareRatio(cache, a, p).dec) =
                  getAllGammShareRatio(cache, a, p).dec

\* C8: for a known pool whose total ratio is ready, getShareAssets returns
\* one entry per pool asset, in pool order, with ratio = weight / totalWeight
\* and asset = asset amount * (total owned share / totalShare).
C8_ShareAssetsScaledByOwnership ==
    (IsCall("getShareAssets") /\ PoolUsable(ret.args[2])) =>
        LET pool == pools[ret.args[2]]
            owned == DecQuo(getAllGammShare(cache, ret.args[1], ret.args[2]).dec,
                            pool.totalShare)
            assets == ret.value
        IN  /\ Len(assets) = Len(pool.poolAssets)
            /\ \A i \in 1..Len(assets) :
                  /\ assets[i].ratio =
                        RatePretty(DecQuo(pool.poolAssets[i].weight, pool.totalWeight))
                  /\ assets[i].asset.currency = pool.poolAssets[i].amount.currency
                  /\ assets[i].asset.dec = DecMul(pool.poolAssets[i].amount.dec, owned)

\* C9: getLockedGammShareValue is poolLiquidity * (locked share / totalShare)
\* for a known pool with nonzero totalShare, a ready zero when totalShare is
\* zero, and not ready when the pool is absent.
C9_LockedValue ==
    \A a \in Addresses, p \in PoolIds, liq \in PoolLiquidities :
        LET value == getLockedGammShareValue(cache, a, p, liq, Usd)
        IN  /\ pools[p] = Absent => ~value.ready
            /\ (pools[p] # Absent /\ DecIsZero(pools[p].totalShare)) =>
                  value = PricePretty(Usd, Dec(0))
            /\ PoolUsable(p) =>
                  value = PricePretty(liq.fiatCurrency,
                              DecMul(liq.dec,
                                     DecQuo(getLockedGammShare(cache, a, p).dec,
                                            pools[p].totalShare)))

C9_Witness ==
    /\ IsCall("getLockedGammShareValue")
    /\ PoolUsable(ret.args[2])
    /\ getLockedGammShare(cache, ret.args[1], ret.args[2]).dec = Dec(50)
    /\ ret.value = PricePretty(Usd, Dec(100))

====
